---------------------------- MODULE Spec2Model ----------------------------
(***************************************************************************)
(* Model of the video catalog viewer of src/src/App.js: the initial load   *)
(* (playlist fetch, statistics fetch, merge), the periodic statistics      *)
(* refresh, the derived view (filter, sort, selection) and the selection   *)
(* reconciler.                                                             *)
(*                                                                         *)
(* JavaScript values are tagged records (JS value model below); a string   *)
(* is a sequence of tokens, a token being one character for the display    *)
(* texts and one lexical unit for URLs, dates and tags.                    *)
(***************************************************************************)
EXTENDS Integers, Sequences, FiniteSets, TLC

VARIABLES
    videos,            \* useState([]) : the Video collection
    query,             \* useState("") : search text
    selectedOpponent,  \* useState("all")
    tagFilter,         \* useState("all")
    selectedVideoId,   \* useState(null)
    selectedSeason,    \* useState("all")
    sortBy,            \* useState("dateDesc")
    loadPc,            \* position of loadVideosAndStats
    sorted,            \* the local `sorted` of loadVideosAndStats, once computed
    intervals,         \* number of live setInterval timers
    inflight,          \* periodic statistics requests awaiting their response
    mounted,           \* the component is mounted
    renderError,       \* "none", or the place whose exception tore the tree down
    engine,            \* the JavaScript engine whose Array.prototype.sort runs
    requestIds,        \* the ids in the body of the last statistics request
    playlistRequests,  \* history: playlist requests issued
    statsRequests,     \* history: statistics requests issued by the initial load
    refreshRequests,   \* history: statistics requests issued by the timer
    events,            \* history: user events handled since the initial state
    lastOp             \* history: the operation of the last step and what it saw

vars == <<videos, query, selectedOpponent, tagFilter, selectedVideoId,
          selectedSeason, sortBy, loadPc, sorted, intervals, inflight, mounted,
          renderError, engine, requestIds, playlistRequests, statsRequests,
          refreshRequests, events, lastOp>>

-----------------------------------------------------------------------------
(* JS value model *)

Undefined == [t |-> "undefined"]
Null      == [t |-> "null"]
NaN       == [t |-> "NaN"]
Num(n)    == [t |-> "number", v |-> n]
Str(s)    == [t |-> "string", v |-> s]
Arr(a)    == [t |-> "array", v |-> a]

IsNumber(x) == x.t = "number"
IsString(x) == x.t = "string"

\* typeof x === "number" (NaN is of type number)
TypeofNumber(x) == x.t \in {"number", "NaN"}

\* ToBoolean
Truthy(x) ==
    CASE x.t = "undefined" -> FALSE
      [] x.t = "null"      -> FALSE
      [] x.t = "NaN"       -> FALSE
      [] x.t = "number"    -> x.v # 0
      [] x.t = "string"    -> x.v # <<>>
      [] OTHER             -> TRUE

\* a || b
OrElse(a, b) == IF Truthy(a) THEN a ELSE b

\* x == null  (loose equality: null or undefined)
LooseNull(x) == x.t \in {"undefined", "null"}

\* StringToNumber on the numeric literals the model uses
NumericLiterals == [s \in {<<"7">>, <<"12">>} |-> IF s = <<"7">> THEN 7 ELSE 12]

\* Number(x)
ToNumber(x) ==
    CASE x.t = "number"    -> x
      [] x.t = "NaN"       -> NaN
      [] x.t = "undefined" -> NaN
      [] x.t = "null"      -> Num(0)
      [] x.t = "string"    -> IF x.v = <<>> THEN Num(0)
                              ELSE IF x.v \in DOMAIN NumericLiterals
                                   THEN Num(NumericLiterals[x.v])
                                   ELSE NaN
      [] OTHER             -> NaN

-----------------------------------------------------------------------------
(* Strings: sequences of tokens *)

Lowered ==
    [c \in {"A", "B", "Full Game", "FULL GAME", "Highlights"} |->
        CASE c = "A" -> "a"
          [] c = "B" -> "b"
          [] c = "Full Game" -> "full game"
          [] c = "FULL GAME" -> "full game"
          [] c = "Highlights" -> "highlights"]

LowerToken(c) == IF c \in DOMAIN Lowered THEN Lowered[c] ELSE c

\* String.prototype.toLowerCase
ToLowerCase(s) == [i \in DOMAIN s |-> LowerToken(s[i])]

RECURSIVE TrimStart(_)
TrimStart(s) == IF s # <<>> /\ Head(s) = " " THEN TrimStart(Tail(s)) ELSE s

RECURSIVE TrimEnd(_)
TrimEnd(s) ==
    IF s # <<>> /\ s[Len(s)] = " " THEN TrimEnd(SubSeq(s, 1, Len(s) - 1)) ELSE s

\* String.prototype.trim
Trim(s) == TrimEnd(TrimStart(s))

\* String.prototype.includes
Includes(s, sub) ==
    \E i \in 0..(Len(s) - Len(sub)) : SubSeq(s, i + 1, i + Len(sub)) = sub

\* index of the first token of s that lies in set, or 0
FirstIn(s, set) ==
    IF \E i \in DOMAIN s : s[i] \in set
    THEN CHOOSE i \in DOMAIN s : s[i] \in set /\ \A j \in 1..(i - 1) : s[j] \notin set
    ELSE 0

\* s.split(sep)[0] for a set of one-token separators
BeforeFirst(s, set) ==
    IF FirstIn(s, set) = 0 THEN s ELSE SubSeq(s, 1, FirstIn(s, set) - 1)

\* the text after the first separator token (empty when there is none)
AfterFirst(s, set) ==
    IF FirstIn(s, set) = 0 THEN <<>> ELSE SubSeq(s, FirstIn(s, set) + 1, Len(s))

-----------------------------------------------------------------------------
(* getYouTubeId.  A URL is a sequence of lexical tokens: the scheme         *)
(* "https://", a host, path tokens, the delimiters "?", "&", "#", parameter *)
(* names "v=", "t=", "list=" and identifier texts.                          *)

Delimiters == {"?", "&", "#"}

\* new URL(url) succeeds: a scheme followed by a host
UrlParses(url) ==
    /\ Len(url) >= 2
    /\ url[1] = "https://"
    /\ url[2] \in {"www.youtube.com", "m.youtube.com", "example.com", "youtu.be/"}

\* u.hostname
Hostname(url) == url[2]

\* u.hostname.includes("youtube.com")
HostIsYouTube(url) == Hostname(url) \in {"www.youtube.com", "m.youtube.com"}

\* the query string of a URL: after the first "?", before the first "#"
QueryPart(url) == AfterFirst(BeforeFirst(url, {"#"}), {"?"})

\* u.searchParams.get("v"): the value of the first parameter named v, or null
RECURSIVE SearchParamV(_)
SearchParamV(qs) ==
    IF qs = <<>> THEN Null
    ELSE IF Head(qs) = "v=" THEN Str(BeforeFirst(Tail(qs), {"&"}))
    ELSE IF FirstIn(qs, {"&"}) = 0 THEN Null
    ELSE SearchParamV(AfterFirst(qs, {"&"}))

\* function getYouTubeId(url): the identifier, a string (sequence of tokens)
getYouTubeId(url) ==
    IF ~Truthy(url) THEN <<>>
    ELSE IF ~IsString(url) THEN <<>>   \* url.includes is not a function: caught
    ELSE IF Includes(url.v, <<"youtu.be/">>)
         THEN BeforeFirst(BeforeFirst(AfterFirst(url.v, {"youtu.be/"}), {"youtu.be/"}),
                          Delimiters)
    ELSE IF UrlParses(url.v) /\ HostIsYouTube(url.v)
         THEN OrElse(SearchParamV(QueryPart(url.v)), Str(<<>>)).v
    ELSE <<>>

-----------------------------------------------------------------------------
(* Dates *)

\* Date.parse on the date texts the model uses: days since the epoch
DateLiterals ==
    [s \in {<<"1970-01-01">>, <<"2024-11-02">>, <<"2024-12-01">>, <<"2025-01-15">>} |->
        CASE s = <<"1970-01-01">> -> 0
          [] s = <<"2024-11-02">> -> 20029
          [] s = <<"2024-12-01">> -> 20058
          [] s = <<"2025-01-15">> -> 20103]

\* new Date(x).getTime(): a number, or NaN for an Invalid Date
TimeValue(x) ==
    CASE x.t = "number" -> x
      [] x.t = "string" -> IF x.v \in DOMAIN DateLiterals
                           THEN Num(DateLiterals[x.v]) ELSE NaN
      [] x.t = "null"   -> Num(0)
      [] OTHER          -> NaN

\* a - b on numbers
Minus(a, b) == IF a.t = "NaN" \/ b.t = "NaN" THEN NaN ELSE Num(a.v - b.v)

\* new Date(v.date || 0)
DateOf(v) == TimeValue(OrElse(v.date, Num(0)))

-----------------------------------------------------------------------------
(* Comparators *)

\* collation of the display characters: primary weight, then lower before upper
Primary(c) ==
    CASE c = " " -> 0
      [] c \in {"a", "A"} -> 1
      [] c \in {"b", "B"} -> 2
      [] c \in {"l", "L"} -> 3
      [] OTHER -> 4

Tertiary(c) == IF c \in DOMAIN Lowered THEN 1 ELSE 0

RECURSIVE LexCompare(_, _)
LexCompare(k1, k2) ==
    IF k1 = <<>> /\ k2 = <<>> THEN 0
    ELSE IF k1 = <<>> THEN -1
    ELSE IF k2 = <<>> THEN 1
    ELSE IF Head(k1) < Head(k2) THEN -1
    ELSE IF Head(k1) > Head(k2) THEN 1
    ELSE LexCompare(Tail(k1), Tail(k2))

\* String.prototype.localeCompare
LocaleCompare(s1, s2) ==
    LET p == LexCompare([i \in DOMAIN s1 |-> Primary(s1[i])],
                        [i \in DOMAIN s2 |-> Primary(s2[i])])
    IN  IF p # 0 THEN p
        ELSE LexCompare([i \in DOMAIN s1 |-> Tertiary(s1[i])],
                        [i \in DOMAIN s2 |-> Tertiary(s2[i])])

\* the comparator of the initial sort: newest first
InitialCompare(a, b) == Minus(DateOf(b), DateOf(a))

\* the comparator of filteredVideos, by sort mode
ViewCompare(mode, a, b) ==
    CASE mode = "dateAsc"   -> Minus(DateOf(a), DateOf(b))
      [] mode = "dateDesc"  -> Minus(DateOf(b), DateOf(a))
      [] mode = "opponent"  -> Num(LocaleCompare(OrElse(a.opponent, Str(<<>>)).v,
                                                 OrElse(b.opponent, Str(<<>>)).v))
      [] mode = "viewsDesc" -> Minus(OrElse(b.viewCount, Num(0)),
                                     OrElse(a.viewCount, Num(0)))
      [] OTHER              -> Num(0)

\* UTF-16 code units of the display characters
CodeUnit(c) ==
    CASE c = " " -> 32
      [] c = "1" -> 49
      [] c = "2" -> 50
      [] c = "A" -> 65
      [] c = "B" -> 66
      [] c = "a" -> 97
      [] c = "b" -> 98
      [] c = "l" -> 108
      [] OTHER   -> 0

\* the default comparator of Array.prototype.sort(): strings by code units
DefaultCompare(a, b) ==
    Num(LexCompare([i \in DOMAIN a |-> CodeUnit(a[i])], [i \in DOMAIN b |-> CodeUnit(b[i])]))

\* the comparator a sort call uses; "load" is the initial sort, "default" is sort()
Comparator(mode, a, b) ==
    CASE mode = "load"    -> InitialCompare(a, b)
      [] mode = "default" -> DefaultCompare(a, b)
      [] OTHER            -> ViewCompare(mode, a, b)

\* SortCompare of ECMA-262: a NaN result of the comparator counts as +0
SortCompare(mode, a, b) ==
    LET r == Comparator(mode, a, b) IN IF r.t = "NaN" THEN 0 ELSE r.v

-----------------------------------------------------------------------------
(* Array.prototype.sort.  With a comparator that is a consistent ordering   *)
(* every engine returns the one stable order; with an inconsistent one (a   *)
(* NaN result for an Invalid Date) the order is implementation-defined, so  *)
(* the sort is modelled by the algorithm each engine runs on short arrays:  *)
(* V8 finds the leading run and inserts the rest by binary search,          *)
(* SpiderMonkey inserts by linear search from the right.                    *)

Engines == {"v8", "spidermonkey"}

Reverse(s) == [i \in DOMAIN s |-> s[Len(s) + 1 - i]]

InsertAt(p, k, x) == SubSeq(p, 1, k) \o <<x>> \o SubSeq(p, k + 1, Len(p))

\* V8 CountAndMakeRun: the length of the leading run
RECURSIVE RunLength(_, _, _, _)
RunLength(mode, s, i, descending) ==
    IF i > Len(s) THEN Len(s)
    ELSE IF descending /\ SortCompare(mode, s[i], s[i - 1]) >= 0 THEN i - 1
    ELSE IF ~descending /\ SortCompare(mode, s[i], s[i - 1]) < 0 THEN i - 1
    ELSE RunLength(mode, s, i + 1, descending)

\* V8 BinaryInsertionSort: the number of elements of p that stay before pivot
RECURSIVE BinarySearch(_, _, _, _, _)
BinarySearch(mode, p, pivot, left, right) ==
    IF left >= right THEN left
    ELSE LET mid == left + ((right - left) \div 2)
         IN  IF SortCompare(mode, pivot, p[mid + 1]) < 0
             THEN BinarySearch(mode, p, pivot, left, mid)
             ELSE BinarySearch(mode, p, pivot, mid + 1, right)

RECURSIVE BinaryInsertionSort(_, _, _)
BinaryInsertionSort(mode, p, rest) ==
    IF rest = <<>> THEN p
    ELSE BinaryInsertionSort(
             mode,
             InsertAt(p, BinarySearch(mode, p, Head(rest), 0, Len(p)), Head(rest)),
             Tail(rest))

SortV8(mode, s) ==
    IF Len(s) < 2 THEN s
    ELSE LET descending == SortCompare(mode, s[2], s[1]) < 0
             n   == RunLength(mode, s, 3, descending)
             run == IF descending THEN Reverse(SubSeq(s, 1, n)) ELSE SubSeq(s, 1, n)
         IN  BinaryInsertionSort(mode, run, SubSeq(s, n + 1, Len(s)))

\* SpiderMonkey InsertionSort: the number of elements of p that stay before item
RECURSIVE LinearSearch(_, _, _, _)
LinearSearch(mode, p, item, j) ==
    IF j = 0 THEN 0
    ELSE IF SortCompare(mode, p[j], item) <= 0 THEN j
    ELSE LinearSearch(mode, p, item, j - 1)

RECURSIVE LinearInsertionSort(_, _, _)
LinearInsertionSort(mode, p, rest) ==
    IF rest = <<>> THEN p
    ELSE LinearInsertionSort(
             mode,
             InsertAt(p, LinearSearch(mode, p, Head(rest), Len(p)), Head(rest)),
             Tail(rest))

SortSpiderMonkey(mode, s) == LinearInsertionSort(mode, <<>>, s)

\* [...s].sort(comparator) on engine e
ArraySort(e, mode, s) ==
    IF e = "v8" THEN SortV8(mode, s) ELSE SortSpiderMonkey(mode, s)

-----------------------------------------------------------------------------
(* The derived view: filteredVideos, selectedVideo, the selection reconciler *)

All == <<"a", "l", "l">>

\* const q = query.trim().toLowerCase()
NormalizedQuery(q) == ToLowerCase(Trim(q))

\* v.title.toLowerCase() is evaluated, on a title that has no such method
TitleThrows(v, q) == NormalizedQuery(q) # <<>> /\ ~IsString(v.title)

\* matchesSearch
MatchesSearch(v, q) ==
    LET nq == NormalizedQuery(q)
    IN  \/ nq = <<>>
        \/ Includes(ToLowerCase(v.title.v), nq)
        \/ Includes(ToLowerCase(OrElse(v.opponent, Str(<<>>)).v), nq)
        \/ Includes(ToLowerCase(OrElse(v.notes, Str(<<>>)).v), nq)

\* matchesOpponent
MatchesOpponent(v, opp) == opp = All \/ v.opponent = Str(opp)

\* matchesSeason
MatchesSeason(v, season) == season = All \/ v.season = Str(season)

\* tagsLower
TagsLower(v) ==
    LET tags == OrElse(v.tags, Arr(<<>>)).v
    IN  [i \in DOMAIN tags |-> ToLowerCase(tags[i])]

\* matchesTag
MatchesTag(v, tag) ==
    CASE tag = "all"        -> TRUE
      [] tag = "full"       -> \E i \in DOMAIN TagsLower(v) : TagsLower(v)[i] = <<"full game">>
      [] tag = "highlights" -> \E i \in DOMAIN TagsLower(v) : TagsLower(v)[i] = <<"highlights">>
      [] OTHER              -> TRUE

\* the predicate of videos.filter
FilterPredicate(v, q, opp, season, tag) ==
    /\ MatchesSearch(v, q)
    /\ MatchesOpponent(v, opp)
    /\ MatchesSeason(v, season)
    /\ MatchesTag(v, tag)

\* the filter predicate throws on some Video of vs
FilterThrows(vs, q) == \E i \in DOMAIN vs : TitleThrows(vs[i], q)

\* const base = videos.filter(...)
RECURSIVE Base(_, _, _, _, _)
Base(vs, q, opp, season, tag) ==
    IF vs = <<>> THEN <<>>
    ELSE (IF FilterPredicate(Head(vs), q, opp, season, tag) THEN <<Head(vs)>> ELSE <<>>)
         \o Base(Tail(vs), q, opp, season, tag)

\* the useMemo of filteredVideos, as a function of its dependencies
FilteredOf(e, vs, q, opp, season, tag, mode) ==
    ArraySort(e, mode, Base(vs, q, opp, season, tag))

\* filteredVideos in the current state
filteredVideos ==
    FilteredOf(engine, videos, query, selectedOpponent, selectedSeason, tagFilter, sortBy)

Ids(list) == {list[i].id : i \in DOMAIN list}

\* const selectedVideo = filteredVideos.find(...) || filteredVideos[0] || null
SelectedVideoOf(list, sel) ==
    IF \E i \in DOMAIN list : list[i].id = sel
    THEN list[CHOOSE i \in DOMAIN list :
                  list[i].id = sel /\ \A j \in 1..(i - 1) : list[j].id # sel]
    ELSE IF list # <<>> THEN list[1]
    ELSE Null

\* Reconcile without its second branch: a stale selection is never replaced
ReconcileStale(list, sel) == IF Len(list) = 0 THEN Null ELSE sel

\* the selection reconciler effect: the selected id it leaves
Reconcile(list, sel) ==
    IF Len(list) = 0 THEN Null
    ELSE IF SelectedVideoOf(list, sel) = Null \/ ~(\E i \in DOMAIN list : list[i].id = sel)
         THEN list[1].id
    ELSE sel

-----------------------------------------------------------------------------
(* Statistics: identifiers and the two merges *)

\* statsMap[id]: the entry, undefined when the key is absent
Lookup(statsMap, id) == IF id \in DOMAIN statsMap THEN statsMap[id] ELSE Undefined

EmptyMap == [k \in {} |-> Null]

\* Dedupe with an array in place of the Set: every occurrence is kept
DedupeNone(s, seen) == s

\* Array.from(new Set(ids)): first occurrences, in order
RECURSIVE Dedupe(_, _)
Dedupe(s, seen) ==
    IF s = <<>> THEN <<>>
    ELSE IF Head(s) \in seen THEN Dedupe(Tail(s), seen)
    ELSE <<Head(s)>> \o Dedupe(Tail(s), seen \cup {Head(s)})

\* .map((v) => getYouTubeId(v.videoUrl)).filter(Boolean)
RECURSIVE NonEmptyIds(_)
NonEmptyIds(vs) ==
    IF vs = <<>> THEN <<>>
    ELSE (IF getYouTubeId(Head(vs).videoUrl) # <<>>
          THEN <<getYouTubeId(Head(vs).videoUrl)>> ELSE <<>>)
         \o NonEmptyIds(Tail(vs))

\* uniqueIds
UniqueIds(vs) == Dedupe(NonEmptyIds(vs), {})

\* the merge of the initial load, for one Video
MergeOne(v, statsMap) ==
    LET id == getYouTubeId(v.videoUrl)
        dynamicViews == IF id # <<>> /\ ~LooseNull(Lookup(statsMap, id))
                        THEN ToNumber(Lookup(statsMap, id))
                        ELSE v.viewCount
    IN  [v EXCEPT !.viewCount = IF TypeofNumber(dynamicViews) /\ dynamicViews.t # "NaN"
                                THEN dynamicViews
                                ELSE Num(0)]

\* const merged = sorted.map(...)
Merged(list, statsMap) == [i \in DOMAIN list |-> MergeOne(list[i], statsMap)]

\* RefreshOne without the spread of v: only the id and the new count remain
RefreshOneNoSpread(v, statsMap) ==
    LET id == getYouTubeId(v.videoUrl)
    IN  IF id = <<>> \/ LooseNull(Lookup(statsMap, id)) THEN v
        ELSE [id |-> v.id, title |-> Undefined, opponent |-> Undefined,
              season |-> Undefined, notes |-> Undefined, tags |-> Undefined,
              date |-> Undefined, videoUrl |-> Undefined,
              viewCount |-> ToNumber(Lookup(statsMap, id))]

\* the merge of the periodic refresh, for one Video
RefreshOne(v, statsMap) ==
    LET id == getYouTubeId(v.videoUrl)
    IN  IF id = <<>> \/ LooseNull(Lookup(statsMap, id)) THEN v
        ELSE [v EXCEPT !.viewCount = ToNumber(Lookup(statsMap, id))]

\* current.map(...) of the periodic refresh
Refreshed(current, statsMap) ==
    [i \in DOMAIN current |-> RefreshOne(current[i], statsMap)]

-----------------------------------------------------------------------------
(* The periodic refresh timer effect *)

\* TimerCleanup without clearInterval
TimerCleanupLeak(n, vs) == n

\* return () => clearInterval(interval): the cleanup of the effect that ran for vs
TimerCleanup(n, vs) == IF vs = <<>> THEN n ELSE n - 1

\* the effect body for vs: no timer for an empty collection
TimerSetup(n, vs) == IF Len(vs) = 0 THEN n ELSE n + 1

\* videos changed from old to new: cleanup of the old effect, then the new effect
TimerEffect(n, old, new) == TimerSetup(TimerCleanup(n, old), new)

-----------------------------------------------------------------------------
(* Bounds and inputs *)

MaxVideos == 2
MaxRefresh == 1
MaxEvents == 1
MaxViewVideos == 2

Video(id, title, opponent, season, notes, tags, date, videoUrl, viewCount) ==
    [id |-> id, title |-> title, opponent |-> opponent, season |-> season,
     notes |-> notes, tags |-> tags, date |-> date, videoUrl |-> videoUrl,
     viewCount |-> viewCount]

VideoA ==
    Video(Str(<<"v1">>), Str(<<"A", "b">>), Str(<<"a">>), Str(<<"1">>), Undefined,
          Arr(<<<<"Full Game">>>>), Str(<<"2024-11-02">>),
          Str(<<"https://", "youtu.be/", "abc", "?", "t=", "5">>), Num(10))

VideoB ==
    Video(Str(<<"v2">>), Str(<<"b">>), Str(<<"B">>), Str(<<"2">>), Str(<<"a", " ", "b">>),
          Arr(<<<<"Highlights">>>>), Str(<<"2025-01-15">>),
          Str(<<"https://", "www.youtube.com", "/watch", "?", "v=", "xyz", "&", "list=", "p">>),
          Str(<<"12">>))

VideoC ==
    Video(Str(<<"v3">>), Undefined, Undefined, Undefined, Undefined,
          Undefined, Undefined,
          Str(<<"https://", "example.com", "/video">>), Undefined)

Catalog == {VideoA, VideoB, VideoC}

VideoD ==
    Video(Str(<<"v4">>), Str(<<"a">>), Str(<<"a">>), Str(<<"1">>), Str(<<"B">>),
          Arr(<<<<"FULL GAME">>, <<"Highlights">>>>), Str(<<"tbd">>),
          Str(<<"https://", "youtu.be/", "abc">>), Num(3))

VideoE ==
    Video(Str(<<"v5">>), Str(<<"B", " ", "a">>), Str(<<"b">>), Str(<<"2">>), Undefined,
          Arr(<<>>), Str(<<"2024-11-02">>), Str(<<>>), Num(10))

\* the records of the derived-view specification: Catalog, a record with an
\* invalid date and a record with the date of VideoA
ViewCatalog == Catalog \cup {VideoD, VideoE}

\* the sequences of at most n distinct records of set
SeqsNoRepeat(set, n) ==
    UNION {{s \in [1..k -> set] : \A i, j \in 1..k : i # j => s[i] # s[j]} : k \in 0..n}

\* the bodies a successful playlist response may carry
Playlists == SeqsNoRepeat(Catalog, MaxVideos)

ViewPlaylists == SeqsNoRepeat(ViewCatalog, MaxViewVideos)

\* the entries a statistics response may hold for an identifier
StatsEntries == {Null, Num(50), Str(<<"7">>), Str(<<"n/a">>)}

\* the identifier-to-count mappings a statistics response may carry
StatsMaps(ids) == UNION {[K -> StatsEntries] : K \in SUBSET ids}

\* the ways a request fails
Failures == {"networkError", "notOk", "unparseable"}

\* the search texts a user types
Queries == {<<>>, <<" ", "A">>, <<"b">>}

RangeOf(s) == {s[i] : i \in DOMAIN s}

-----------------------------------------------------------------------------
(* Facet option lists *)

\* Set insertion order: the distinct truthy values of a field, first occurrences
RECURSIVE FieldValues(_, _)
FieldValues(vs, field) ==
    IF vs = <<>> THEN <<>>
    ELSE (IF Truthy(Head(vs)[field]) THEN <<Head(vs)[field].v>> ELSE <<>>)
         \o FieldValues(Tail(vs), field)

\* ["all", ...Array.from(set).sort()] for a field of a collection, on engine e
Facet(e, vs, field) == <<All>> \o ArraySort(e, "default", Dedupe(FieldValues(vs, field), {}))

\* const opponents = ["all", ...Array.from(set).sort()]
opponents == Facet(engine, videos, "opponent")

\* const seasons = ["all", ...Array.from(set).sort()]
seasons == Facet(engine, videos, "season")

-----------------------------------------------------------------------------
(* State machine *)

\* lastOp: the kind of the last step ("mount", "load", "refresh", "tick",
\* "user", "unmount"), how its request ended, the statistics mapping it
\* merged, and the selected id its render handed to the reconciler.
Op(kind, outcome, map, sel) == [op |-> kind, outcome |-> outcome, map |-> map, sel |-> sel]

\* The state once the component has mounted and its three effects have run:
\* loadVideosAndStats has issued the playlist request, the timer effect found
\* no videos, the reconciler found an empty list.
InitApp ==
    /\ videos = <<>>
    /\ query = <<>>
    /\ selectedOpponent = All
    /\ tagFilter = "all"
    /\ selectedVideoId = Null
    /\ selectedSeason = All
    /\ sortBy = "dateDesc"
    /\ loadPc = "awaitPlaylist"
    /\ sorted = <<>>
    /\ intervals = 0
    /\ inflight = 0
    /\ mounted = TRUE
    /\ renderError = "none"
    /\ requestIds = <<>>
    /\ playlistRequests = 1
    /\ statsRequests = 0
    /\ refreshRequests = 0
    /\ events = 0
    /\ lastOp = Op("mount", "none", EmptyMap, Null)

\* No record of Catalog has an invalid date, so every comparator of Spec is a
\* consistent ordering and both engines sort alike: Spec runs on one of them.
Init == InitApp /\ engine = "v8"

\* A state update of a mounted component, the render it causes and the effects
\* that follow: vs, q, opp, season, tag, mode, sel are the state after the
\* update.  A render whose filter throws tears the tree down (no error
\* boundary); otherwise the reconciler runs, and the timer effect when the
\* collection was set.
Commit(vs, q, opp, season, tag, mode, sel, videosSet) ==
    /\ videos' = vs
    /\ query' = q
    /\ selectedOpponent' = opp
    /\ selectedSeason' = season
    /\ tagFilter' = tag
    /\ sortBy' = mode
    /\ IF FilterThrows(vs, q)
       THEN /\ selectedVideoId' = sel
            /\ mounted' = FALSE
            /\ renderError' = "filter"
            /\ intervals' = TimerCleanup(intervals, videos)
       ELSE /\ selectedVideoId' = Reconcile(FilteredOf(engine, vs, q, opp, season, tag, mode), sel)
            /\ mounted' = TRUE
            /\ renderError' = "none"
            /\ intervals' = IF videosSet THEN TimerEffect(intervals, videos, vs) ELSE intervals

History == <<playlistRequests, statsRequests, refreshRequests, events>>
Async == <<loadPc, sorted, inflight>>
View == <<videos, query, selectedOpponent, tagFilter, selectedVideoId, selectedSeason,
          sortBy, intervals, mounted, renderError>>

\* setVideos(merged); if (merged.length > 0) setSelectedVideoId(merged[0].id)
StoreMerged(merged, outcome, map) ==
    /\ loadPc' = "done"
    /\ IF mounted
       THEN /\ Commit(merged, query, selectedOpponent, selectedSeason, tagFilter, sortBy,
                      IF Len(merged) > 0 THEN merged[1].id ELSE selectedVideoId, TRUE)
            /\ lastOp' = Op("load", outcome, map,
                            IF Len(merged) > 0 THEN merged[1].id ELSE selectedVideoId)
       ELSE /\ UNCHANGED View
            /\ lastOp' = Op("load", outcome, map, selectedVideoId)

\* PlaylistFails without the return of the !playlistRes.ok branch: the body of
\* the failed response is read and stored as the collection
PlaylistFailsOpen ==
    /\ loadPc = "awaitPlaylist"
    /\ loadPc' = "playlistFailed"
    /\ \E playlistData \in Playlists :
         LET merged == Merged(ArraySort(engine, "load", playlistData), EmptyMap)
             first  == IF Len(merged) > 0 THEN merged[1].id ELSE selectedVideoId
         IN  /\ Commit(merged, query, selectedOpponent, selectedSeason, tagFilter, sortBy,
                       first, TRUE)
             /\ lastOp' = Op("load", "notOk", EmptyMap, first)
    /\ UNCHANGED <<sorted, inflight, engine, requestIds, History>>

\* The playlist request fails: !playlistRes.ok, a rejected fetch, or a body
\* that json() rejects.  loadVideosAndStats returns.
PlaylistFails ==
    /\ loadPc = "awaitPlaylist"
    /\ \E f \in Failures : lastOp' = Op("load", f, EmptyMap, selectedVideoId)
    /\ loadPc' = "playlistFailed"
    /\ UNCHANGED <<View, sorted, inflight, engine, requestIds, History>>

\* PlaylistArrives without the initial sort
PlaylistArrivesUnsorted ==
    /\ loadPc = "awaitPlaylist"
    /\ \E playlistData \in Playlists :
         /\ sorted' = playlistData
         /\ IF Len(UniqueIds(sorted')) > 0
            THEN /\ loadPc' = "awaitStats"
                 /\ statsRequests' = statsRequests + 1
                 /\ requestIds' = UniqueIds(sorted')
                 /\ lastOp' = Op("load", "requested", EmptyMap, selectedVideoId)
                 /\ UNCHANGED View
            ELSE /\ StoreMerged(Merged(sorted', EmptyMap), "skipped", EmptyMap)
                 /\ UNCHANGED <<statsRequests, requestIds>>
    /\ UNCHANGED <<inflight, engine, playlistRequests, refreshRequests, events>>

\* The playlist response arrives: sort, collect the identifiers, and either
\* issue the statistics request or, with no identifier, merge and store.
PlaylistArrives ==
    /\ loadPc = "awaitPlaylist"
    /\ \E playlistData \in Playlists :
         /\ sorted' = ArraySort(engine, "load", playlistData)
         /\ IF Len(UniqueIds(sorted')) > 0
            THEN /\ loadPc' = "awaitStats"
                 /\ statsRequests' = statsRequests + 1
                 /\ requestIds' = UniqueIds(sorted')
                 /\ lastOp' = Op("load", "requested", EmptyMap, selectedVideoId)
                 /\ UNCHANGED View
            ELSE /\ StoreMerged(Merged(sorted', EmptyMap), "skipped", EmptyMap)
                 /\ UNCHANGED <<statsRequests, requestIds>>
    /\ UNCHANGED <<inflight, engine, playlistRequests, refreshRequests, events>>

\* The statistics request of the initial load fails: caught, statsMap stays {}.
StatsFails ==
    /\ loadPc = "awaitStats"
    /\ \E f \in Failures : StoreMerged(Merged(sorted, EmptyMap), f, EmptyMap)
    /\ UNCHANGED <<sorted, inflight, engine, requestIds, History>>

\* The statistics response of the initial load is the JSON text null:
\* statsMap[id] throws in the merge, outside the inner try; the outer catch
\* ends loadVideosAndStats.
StatsNull ==
    /\ loadPc = "awaitStats"
    /\ loadPc' = "aborted"
    /\ lastOp' = Op("load", "null", EmptyMap, selectedVideoId)
    /\ UNCHANGED <<View, sorted, inflight, engine, requestIds, History>>

\* The statistics response of the initial load carries a mapping.
StatsArrives ==
    /\ loadPc = "awaitStats"
    /\ \E statsMap \in StatsMaps(RangeOf(UniqueIds(sorted))) :
         StoreMerged(Merged(sorted, statsMap), "ok", statsMap)
    /\ UNCHANGED <<sorted, inflight, engine, requestIds, History>>

\* The interval callback runs: no request when no Video has an identifier.
Tick ==
    /\ intervals > 0
    /\ refreshRequests < MaxRefresh
    /\ Len(UniqueIds(videos)) > 0
    /\ inflight' = inflight + 1
    /\ refreshRequests' = refreshRequests + 1
    /\ requestIds' = UniqueIds(videos)
    /\ lastOp' = Op("tick", "requested", EmptyMap, selectedVideoId)
    /\ UNCHANGED <<View, loadPc, sorted, engine, playlistRequests, statsRequests, events>>

\* A periodic request fails: !statsRes.ok, a rejected fetch or json().
RefreshFails ==
    /\ inflight > 0
    /\ inflight' = inflight - 1
    /\ \E f \in Failures : lastOp' = Op("refresh", f, EmptyMap, selectedVideoId)
    /\ UNCHANGED <<View, loadPc, sorted, engine, requestIds, History>>

\* A periodic response is the JSON text null: the updater handed to setVideos
\* throws while React renders, which no try block of the callback encloses.
RefreshNull ==
    /\ inflight > 0
    /\ inflight' = inflight - 1
    /\ lastOp' = Op("refresh", "null", EmptyMap, selectedVideoId)
    /\ IF mounted
       THEN /\ mounted' = FALSE
            /\ renderError' = "refresh"
            /\ intervals' = TimerCleanup(intervals, videos)
       ELSE UNCHANGED <<mounted, renderError, intervals>>
    /\ UNCHANGED <<videos, query, selectedOpponent, tagFilter, selectedVideoId,
                   selectedSeason, sortBy, loadPc, sorted, engine, requestIds, History>>

\* A periodic response carries a mapping: setVideos((current) => current.map(...)).
RefreshArrives ==
    /\ inflight > 0
    /\ inflight' = inflight - 1
    /\ \E statsMap \in StatsMaps(RangeOf(UniqueIds(videos))) :
         /\ lastOp' = Op("refresh", "ok", statsMap, selectedVideoId)
         /\ IF mounted
            THEN Commit(Refreshed(videos, statsMap), query, selectedOpponent,
                        selectedSeason, tagFilter, sortBy, selectedVideoId, TRUE)
            ELSE UNCHANGED View
    /\ UNCHANGED <<loadPc, sorted, engine, requestIds, History>>

\* what every user event leaves alone, and its count
UserEvent(sel) ==
    /\ events' = events + 1
    /\ lastOp' = Op("user", "none", EmptyMap, sel)
    /\ UNCHANGED <<Async, engine, requestIds, playlistRequests, statsRequests, refreshRequests>>

\* onChange of the search box
SetQuery ==
    /\ mounted /\ events < MaxEvents
    /\ \E q \in Queries :
         /\ q # query
         /\ Commit(videos, q, selectedOpponent, selectedSeason, tagFilter, sortBy,
                   selectedVideoId, FALSE)
    /\ UserEvent(selectedVideoId)

\* onChange of the opponent select, whose options are the opponents list
SetSelectedOpponent ==
    /\ mounted /\ events < MaxEvents
    /\ \E opp \in RangeOf(opponents) :
         /\ opp # selectedOpponent
         /\ Commit(videos, query, opp, selectedSeason, tagFilter, sortBy,
                   selectedVideoId, FALSE)
    /\ UserEvent(selectedVideoId)

\* onChange of the season select, whose options are the seasons list
SetSelectedSeason ==
    /\ mounted /\ events < MaxEvents
    /\ \E season \in RangeOf(seasons) :
         /\ season # selectedSeason
         /\ Commit(videos, query, selectedOpponent, season, tagFilter, sortBy,
                   selectedVideoId, FALSE)
    /\ UserEvent(selectedVideoId)

\* onChange of the type select
SetTagFilter ==
    /\ mounted /\ events < MaxEvents
    /\ \E tag \in {"all", "full", "highlights"} :
         /\ tag # tagFilter
         /\ Commit(videos, query, selectedOpponent, selectedSeason, tag, sortBy,
                   selectedVideoId, FALSE)
    /\ UserEvent(selectedVideoId)

\* onChange of the sort select
SetSortBy ==
    /\ mounted /\ events < MaxEvents
    /\ \E mode \in {"dateDesc", "dateAsc", "opponent", "viewsDesc"} :
         /\ mode # sortBy
         /\ Commit(videos, query, selectedOpponent, selectedSeason, tagFilter, mode,
                   selectedVideoId, FALSE)
    /\ UserEvent(selectedVideoId)

\* onClick of a card of the gallery: setSelectedVideoId(video.id)
Click ==
    /\ mounted /\ events < MaxEvents
    /\ \E i \in DOMAIN filteredVideos :
         /\ filteredVideos[i].id # selectedVideoId
         /\ Commit(videos, query, selectedOpponent, selectedSeason, tagFilter, sortBy,
                   filteredVideos[i].id, FALSE)
         /\ UserEvent(filteredVideos[i].id)

\* The component is torn down: the cleanup of the timer effect runs.
Unmount ==
    /\ mounted
    /\ mounted' = FALSE
    /\ intervals' = TimerCleanup(intervals, videos)
    /\ lastOp' = Op("unmount", "none", EmptyMap, selectedVideoId)
    /\ UNCHANGED <<videos, query, selectedOpponent, tagFilter, selectedVideoId,
                   selectedSeason, sortBy, renderError, Async, engine, requestIds, History>>

Next ==
    \/ PlaylistFails
    \/ PlaylistArrives
    \/ StatsFails
    \/ StatsNull
    \/ StatsArrives
    \/ Tick
    \/ RefreshFails
    \/ RefreshNull
    \/ RefreshArrives
    \/ SetQuery
    \/ SetSelectedOpponent
    \/ SetSelectedSeason
    \/ SetTagFilter
    \/ SetSortBy
    \/ Click
    \/ Unmount

Spec == Init /\ [][Next]_vars

-----------------------------------------------------------------------------
(* The derived view as a function of the collection and the View State.     *)
(* The initial states are the states the application is in once a playlist  *)
(* has been loaded (its statistics request having failed or been skipped)   *)
(* and the user has set the controls and clicked a card; the steps are the  *)
(* user events.                                                             *)

\* the option lists of the selects for a collection
OptionsOf(e, vs, field) ==
    {All} \cup RangeOf(ArraySort(e, "default", Dedupe(FieldValues(vs, field), {})))

InitView ==
    \E playlistData \in ViewPlaylists, e \in Engines, q \in Queries,
       tag \in {"all", "full", "highlights"},
       mode \in {"dateDesc", "dateAsc", "opponent", "viewsDesc"} :
       LET list == ArraySort(e, "load", playlistData)
           vs   == Merged(list, EmptyMap)
       IN  \E opp \in OptionsOf(e, vs, "opponent"), season \in OptionsOf(e, vs, "season") :
             /\ ~FilterThrows(vs, q)
             /\ engine = e
             /\ sorted = list
             /\ videos = vs
             /\ query = q
             /\ selectedOpponent = opp
             /\ selectedSeason = season
             /\ tagFilter = tag
             /\ sortBy = mode
             /\ \E sel \in Ids(FilteredOf(e, vs, q, opp, season, tag, mode)) \cup {Null} :
                  /\ selectedVideoId = Reconcile(FilteredOf(e, vs, q, opp, season, tag, mode), sel)
                  /\ lastOp = Op("user", "none", EmptyMap, selectedVideoId)
             /\ loadPc = "done"
             /\ intervals = TimerSetup(0, vs)
             /\ inflight = 0
             /\ mounted = TRUE
             /\ renderError = "none"
             /\ playlistRequests = 1
             /\ requestIds = UniqueIds(list)
             /\ statsRequests = IF Len(UniqueIds(list)) > 0 THEN 1 ELSE 0
             /\ refreshRequests = 0
             /\ events = 0

NextView ==
    \/ SetQuery
    \/ SetSelectedOpponent
    \/ SetSelectedSeason
    \/ SetTagFilter
    \/ SetSortBy
    \/ Click

SpecView == InitView /\ [][NextView]_vars

-----------------------------------------------------------------------------
(* The facet lists over the collections a playlist may give.  The initial   *)
(* states are the states the application is in once a playlist has been     *)
(* loaded (its statistics request having failed or been skipped), with the  *)
(* controls untouched; the steps are the user events.                       *)

MaxFacetVideos == 3

FacetPlaylists == SeqsNoRepeat(ViewCatalog, MaxFacetVideos)

InitFacet ==
    \E playlistData \in FacetPlaylists, e \in Engines :
       LET list == ArraySort(e, "load", playlistData)
           vs   == Merged(list, EmptyMap)
       IN  /\ engine = e
           /\ sorted = list
           /\ videos = vs
           /\ query = <<>>
           /\ selectedOpponent = All
           /\ selectedSeason = All
           /\ tagFilter = "all"
           /\ sortBy = "dateDesc"
           /\ selectedVideoId = IF Len(vs) > 0 THEN vs[1].id ELSE Null
           /\ lastOp = Op("load", "none", EmptyMap, selectedVideoId)
           /\ loadPc = "done"
           /\ intervals = TimerSetup(0, vs)
           /\ inflight = 0
           /\ mounted = TRUE
           /\ renderError = "none"
           /\ requestIds = UniqueIds(list)
           /\ playlistRequests = 1
           /\ statsRequests = IF Len(UniqueIds(list)) > 0 THEN 1 ELSE 0
           /\ refreshRequests = 0
           /\ events = 0

NextFacet ==
    \/ SetQuery
    \/ SetSelectedOpponent
    \/ SetSelectedSeason
    \/ SetTagFilter
    \/ SetSortBy
    \/ Click

SpecFacet == InitFacet /\ [][NextFacet]_vars

-----------------------------------------------------------------------------
(* Identifier extraction over the videoUrl values a playlist may carry.     *)
(* The initial states are the states the application is in once a playlist  *)
(* has been loaded and its statistics request has failed or been skipped;   *)
(* the steps are the periodic refresh, whose callback extracts the          *)
(* identifiers again and sends them.                                        *)

MaxUrlVideos == 2

\* the videoUrl values of the playlist records: absent, empty, not a string,
\* short links, watch links, other hosts, text that is no URL
Urls ==
    << Undefined,
       Str(<<>>),
       Num(5),
       Str(<<"https://", "youtu.be/", "abc">>),
       Str(<<"https://", "youtu.be/", "abc", "?", "t=", "5">>),
       Str(<<"https://", "youtu.be/", "abc", "#", "t=", "5", "&", "x">>),
       Str(<<"https://", "youtu.be/">>),
       Str(<<"https://", "youtu.be/", "abc", "/", "youtu.be/", "x">>),
       Str(<<"https://", "youtu.be/", "abc", "?", "feature=", "youtu.be/">>),
       Str(<<"https://", "www.youtube.com", "/watch", "?", "v=", "xyz">>),
       Str(<<"https://", "www.youtube.com", "/watch", "?", "list=", "p", "&", "v=", "xyz",
             "#", "v=", "no">>),
       Str(<<"https://", "m.youtube.com", "/watch">>),
       Str(<<"https://", "www.youtube.com", "/watch", "?", "v=">>),
       Str(<<"https://", "www.youtube.com", "/watch", "?", "feature=", "youtu.be/",
             "&", "v=", "xyz">>),
       Str(<<"https://", "example.com", "/watch", "?", "v=", "xyz">>),
       Str(<<"www.youtube.com", "/watch", "?", "v=", "xyz">>) >>

\* a playlist record with the i-th videoUrl
UrlVideo(i) ==
    Video(Str(<<"u" \o ToString(i)>>), Str(<<"t">>), Undefined, Undefined, Undefined,
          Undefined, Undefined, Urls[i], Undefined)

UrlPlaylists == SeqsNoRepeat({UrlVideo(i) : i \in DOMAIN Urls}, MaxUrlVideos)

InitUrl ==
    \E playlistData \in UrlPlaylists :
       LET list == ArraySort("v8", "load", playlistData)
           vs   == Merged(list, EmptyMap)
       IN  /\ engine = "v8"
           /\ sorted = list
           /\ videos = vs
           /\ query = <<>>
           /\ selectedOpponent = All
           /\ selectedSeason = All
           /\ tagFilter = "all"
           /\ sortBy = "dateDesc"
           /\ selectedVideoId = IF Len(vs) > 0 THEN vs[1].id ELSE Null
           /\ lastOp = Op("load", "none", EmptyMap, selectedVideoId)
           /\ loadPc = "done"
           /\ intervals = TimerSetup(0, vs)
           /\ inflight = 0
           /\ mounted = TRUE
           /\ renderError = "none"
           /\ requestIds = UniqueIds(list)
           /\ playlistRequests = 1
           /\ statsRequests = IF Len(UniqueIds(list)) > 0 THEN 1 ELSE 0
           /\ refreshRequests = 0
           /\ events = 0

NextUrl ==
    \/ Tick
    \/ RefreshFails
    \/ RefreshNull
    \/ RefreshArrives

SpecUrl == InitUrl /\ [][NextUrl]_vars

-----------------------------------------------------------------------------
(* Properties *)

\* a count that is a number and not NaN, else 0
ValidCount(x) == IF x.t = "number" THEN x ELSE Num(0)

\* the selected id the reconciler is to leave for a list and the id it was handed
ExpectedSelection(list, sel) ==
    IF list = <<>> THEN Null
    ELSE IF sel \in Ids(list) THEN sel
    ELSE list[1].id

ExpectedViewCount(v, m) ==
    LET id == getYouTubeId(v.videoUrl)
    IN  IF id \in DOMAIN m /\ m[id] # Null
        THEN (IF ToNumber(m[id]).t = "NaN" THEN Num(0) ELSE ToNumber(m[id]))
        ELSE ValidCount(v.viewCount)

(* C2: on a successful statistics response, in the initial load and in a    *)
(* periodic refresh alike, a Video whose identifier has a present, non-null *)
(* entry gets that entry coerced to a number (0 if not-a-number), and every *)
(* other Video keeps its view count (0 if absent or invalid).               *)
C2_MergeViewCounts ==
    [][(lastOp'.op \in {"load", "refresh"} /\ lastOp'.outcome = "ok" /\ mounted) =>
          LET before == IF lastOp'.op = "load" THEN sorted ELSE videos
          IN  /\ Len(videos') = Len(before)
              /\ \A i \in DOMAIN before :
                    videos'[i].viewCount = ExpectedViewCount(before[i], lastOp'.map)]_vars

\* the collection with every view count kept (0 where absent or invalid)
KeptViews(list) == [i \in DOMAIN list |-> [list[i] EXCEPT !.viewCount = ValidCount(@)]]

(* C3: a failed statistics request leaves every view count as it was and is *)
(* not fatal: the initial load still stores the date-sorted collection, a   *)
(* periodic refresh leaves the collection, and the component, as they were. *)
C3_StatsFailureHarmless ==
    [][/\ (loadPc = "awaitStats" /\ lastOp'.op = "load"
             /\ lastOp'.outcome \in Failures \cup {"null"}) =>
              /\ loadPc' = "done"
              /\ mounted => videos' = KeptViews(sorted)
       /\ (lastOp'.op = "refresh" /\ lastOp'.outcome \in Failures \cup {"null"}) =>
              /\ videos' = videos
              /\ renderError' = renderError
              /\ mounted' = mounted]_vars

(* C4: once the source request has failed the collection stays empty, the   *)
(* selected id stays null and no second source request is made.             *)
C4_SourceFailureLeavesEmpty ==
    loadPc = "playlistFailed" =>
        /\ videos = <<>>
        /\ selectedVideoId = Null
        /\ playlistRequests = 1

\* the source request has failed and the user has since used the controls
C4_Witness == loadPc = "playlistFailed" /\ events > 0 /\ mounted

\* v and w agree on every field but viewCount
SameButViews(v, w) == [v EXCEPT !.viewCount = w.viewCount] = w

(* C5: an applied periodic refresh changes only viewCount fields: the       *)
(* collection keeps its members and order, every Video its other fields,    *)
(* the query, facets and sort mode stay, and a selected id that referenced  *)
(* a Video of the filtered list still does after the reconciliation.        *)
C5_RefreshFrame ==
    [][(lastOp'.op = "refresh" /\ lastOp'.outcome = "ok" /\ mounted) =>
          /\ Len(videos') = Len(videos)
          /\ \A i \in DOMAIN videos : SameButViews(videos'[i], videos[i])
          /\ query' = query
          /\ selectedOpponent' = selectedOpponent
          /\ selectedSeason' = selectedSeason
          /\ tagFilter' = tagFilter
          /\ sortBy' = sortBy
          /\ mounted'
          /\ selectedVideoId \in Ids(filteredVideos) => selectedVideoId' = selectedVideoId]_vars

\* a refresh was applied, and changed a count, after the user had used a
\* control, with a Video selected
C5_Witness ==
    /\ lastOp.op = "refresh" /\ lastOp.outcome = "ok" /\ mounted
    /\ events > 0
    /\ selectedVideoId # Null
    /\ \E i \in DOMAIN videos : videos[i].viewCount = Num(50)

(* C6: the statistics request of the initial load is issued only once the   *)
(* source fetch has succeeded and its records are date-sorted, no periodic  *)
(* request is issued before the collection is stored, and a failed source   *)
(* fetch is followed by no statistics request at all.                       *)
C6_RequestOrder ==
    /\ statsRequests > 0 =>
          /\ loadPc \in {"awaitStats", "done", "aborted"}
          /\ Len(UniqueIds(sorted)) > 0
          /\ sorted = ArraySort(engine, "load", sorted)
    /\ refreshRequests > 0 => (loadPc = "done" /\ videos # <<>>)
    /\ loadPc \in {"awaitPlaylist", "playlistFailed"} =>
          (statsRequests = 0 /\ refreshRequests = 0)

\* both kinds of statistics request have been issued, for two sorted Videos
C6_Witness == statsRequests > 0 /\ refreshRequests > 0 /\ Len(sorted) > 1

(* C7: at most one refresh timer is live; one is live whenever the          *)
(* component is mounted with a non-empty collection; none is live while the *)
(* collection is empty or once the component has been torn down.            *)
C7_OneTimer ==
    /\ intervals \in {0, 1}
    /\ (mounted /\ videos # <<>>) => intervals = 1
    /\ (videos = <<>> \/ ~mounted) => intervals = 0

\* an applied refresh changed the collection: the old timer was cancelled and
\* a new one scheduled
C7_Witness ==
    /\ mounted /\ intervals = 1
    /\ lastOp.op = "refresh" /\ lastOp.outcome = "ok"

\* the text of a display field, empty when the field is absent
TextOf(x) == IF IsString(x) THEN x.v ELSE <<>>

\* the tags of a Video, none when absent
TagsOf(v) == IF v.tags.t = "array" THEN v.tags.v ELSE <<>>

\* the four conditions of the filter, absent fields being empty
Satisfies(v, q, opp, season, tag) ==
    /\ \/ NormalizedQuery(q) = <<>>
       \/ \E field \in {"title", "opponent", "notes"} :
             Includes(ToLowerCase(TextOf(v[field])), NormalizedQuery(q))
    /\ opp = All \/ v.opponent = Str(opp)
    /\ season = All \/ v.season = Str(season)
    /\ \/ tag = "all"
       \/ tag = "full" /\ \E i \in DOMAIN TagsOf(v) : ToLowerCase(TagsOf(v)[i]) = <<"full game">>
       \/ tag = "highlights" /\ \E i \in DOMAIN TagsOf(v) : ToLowerCase(TagsOf(v)[i]) = <<"highlights">>

(* C8: for a collection whose display fields and tags may be absent, the    *)
(* filter never fails and the filtered list holds exactly the Videos that   *)
(* satisfy the search, opponent, season and tag-class conditions.           *)
C8_FilterExact ==
    /\ renderError # "filter"
    /\ mounted =>
          RangeOf(filteredVideos) =
              {videos[i] : i \in {j \in DOMAIN videos :
                  Satisfies(videos[j], query, selectedOpponent, selectedSeason, tagFilter)}}

\* the date value of a Video, epoch-zero when missing or invalid
DateKey(v) == IF DateOf(v).t = "NaN" THEN 0 ELSE DateOf(v).v

\* list ordered by date value (descending when desc), equal dates in list order
StableByDate(list, desc) ==
    LET Before(i, j) ==
            \/ (IF desc THEN DateKey(list[i]) > DateKey(list[j])
                        ELSE DateKey(list[i]) < DateKey(list[j]))
            \/ DateKey(list[i]) = DateKey(list[j]) /\ i < j
        Rank(i) == 1 + Cardinality({j \in DOMAIN list : Before(j, i)})
    IN  [k \in DOMAIN list |-> list[CHOOSE i \in DOMAIN list : Rank(i) = k]]

(* C9: the initial sort and the dateDesc and dateAsc sort modes order the   *)
(* Videos by date value, a missing or invalid date counting as epoch-zero,  *)
(* and Videos of equal date keep their prior relative order.                *)
C9_DateOrder ==
    mounted =>
        LET base == Base(videos, query, selectedOpponent, selectedSeason, tagFilter)
        IN  /\ \A i, j \in DOMAIN videos : i < j => DateKey(videos[i]) >= DateKey(videos[j])
            /\ sortBy = "dateDesc" => filteredVideos = StableByDate(base, TRUE)
            /\ sortBy = "dateAsc" => filteredVideos = StableByDate(base, FALSE)

(* C10: when no two Videos of the filtered list have equal dates, the list  *)
(* under sort mode dateDesc is the reverse of the list under dateAsc.       *)
C10_DescReversesAsc ==
    mounted =>
        LET base == Base(videos, query, selectedOpponent, selectedSeason, tagFilter)
        IN  (\A i, j \in DOMAIN base : i # j => DateKey(base[i]) # DateKey(base[j])) =>
               FilteredOf(engine, videos, query, selectedOpponent, selectedSeason,
                          tagFilter, "dateDesc")
               = Reverse(FilteredOf(engine, videos, query, selectedOpponent,
                                    selectedSeason, tagFilter, "dateAsc"))


\* the identifier the extraction rule gives for a videoUrl value: the text
\* after the first "youtu.be/" up to the first '?', '&' or '#'; else the v
\* parameter of a parseable URL whose host contains "youtube.com"; else ""
ExpectedId(url) ==
    IF IsString(url) /\ Includes(url.v, <<"youtu.be/">>)
    THEN BeforeFirst(AfterFirst(url.v, {"youtu.be/"}), Delimiters)
    ELSE IF IsString(url) /\ UrlParses(url.v) /\ HostIsYouTube(url.v)
    THEN (IF SearchParamV(QueryPart(url.v)) = Null
          THEN <<>> ELSE SearchParamV(QueryPart(url.v)).v)
    ELSE <<>>

\* the non-empty expected identifiers of a collection, in order
RECURSIVE ExpectedIds(_)
ExpectedIds(vs) ==
    IF vs = <<>> THEN <<>>
    ELSE (IF ExpectedId(Head(vs).videoUrl) # <<>>
          THEN <<ExpectedId(Head(vs).videoUrl)>> ELSE <<>>) \o ExpectedIds(Tail(vs))

\* C11: identifier extraction is total; for every videoUrl of the collection
\* it yields the identifier of the extraction rule (text after the first
\* "youtu.be/" cut at the first '?', '&' or '#'; else the v parameter of a
\* parseable youtube.com URL, or ""; else ""), so the identifiers a
\* statistics request carries are the distinct non-empty expected ones.
C11_IdExtraction ==
    /\ \A i \in DOMAIN videos :
         getYouTubeId(videos[i].videoUrl) = ExpectedId(videos[i].videoUrl)
    /\ requestIds = Dedupe(ExpectedIds(videos), {})


\* the non-empty values a field takes in a collection
ValuesOf(vs, field) ==
    {vs[i][field].v : i \in {j \in DOMAIN vs : IsString(vs[j][field]) /\ vs[j][field].v # <<>>}}

\* s comes strictly before t in lexicographic order of the code units
LexBefore(s, t) ==
    \E k \in 1..(Len(t)) :
        /\ k <= Len(s) + 1
        /\ \A i \in 1..(k - 1) : CodeUnit(s[i]) = CodeUnit(t[i])
        /\ (k = Len(s) + 1 \/ CodeUnit(s[k]) < CodeUnit(t[k]))

\* a facet list: "all", then exactly the values, strictly ascending
IsFacetList(list, values) ==
    /\ Len(list) = Cardinality(values) + 1
    /\ list[1] = All
    /\ {list[i] : i \in 2..Len(list)} = values
    /\ \A i, j \in 2..Len(list) : i < j => LexBefore(list[i], list[j])

\* C12: the opponent and the season facet lists are "all" followed by the
\* distinct non-empty values of the full collection in ascending
\* lexicographic order, none repeated, before and after every step, and no
\* change of the query, the facet choices, the sort mode or the selection
\* changes them.
C12_FacetLists ==
    [][/\ IsFacetList(opponents, ValuesOf(videos, "opponent"))
       /\ IsFacetList(seasons, ValuesOf(videos, "season"))
       /\ LET vs == videos'
              e  == engine'
          IN  /\ IsFacetList(Facet(e, vs, "opponent"), ValuesOf(vs, "opponent"))
              /\ IsFacetList(Facet(e, vs, "season"), ValuesOf(vs, "season"))
              /\ lastOp'.op = "user" => /\ Facet(e, vs, "opponent") = opponents
                                        /\ Facet(e, vs, "season") = seasons]_vars

\* a user event has been handled on a collection with an absent opponent and
\* a repeated one, whose opponents were collected out of order
C12_Witness ==
    /\ events = 1
    /\ Len(videos) = 3
    /\ videos[1].opponent = Str(<<"a">>)
    /\ videos[2].opponent = Str(<<"B">>)
    /\ videos[3].opponent = Str(<<"a">>)
    /\ opponents = <<All, <<"B">>, <<"a">>>>
    /\ \E i \in DOMAIN videos : videos[i].season = Str(<<"2">>)
    /\ seasons = <<All, <<"1">>, <<"2">>>>
    /\ <<query, selectedOpponent, selectedSeason, tagFilter, sortBy>>
         # <<<<>>, All, All, "all", "dateDesc">>

=============================================================================
